---- MODULE Spec2Model ----
(***************************************************************************)
(* Model of pkg/controller/csr/csr_controller.go: the CSR auto-approval    *)
(* controller.  The store (API server) holds CertificateSigningRequests    *)
(* and ManagedClusters; external actors create, relabel, resolve and       *)
(* delete CSRs and register clusters; the controller watches CSR events    *)
(* through csrPredicateFuncs, queues admitted requests and runs Reconcile  *)
(* on one request at a time.  Reconcile is modelled at the granularity of  *)
(* its three blocking store calls.                                         *)
(***************************************************************************)
EXTENDS Naturals, Sequences, FiniteSets, TLC

\* ---------------------------------------------------------------- bounds
\* Total number of changes external actors make to the store.
MaxExtOps == 3

\* ------------------------------------------------------------ constants
clusterLabel == "open-cluster-management.io/cluster-name"

CSRNames == {"csr-1", "csr-2"}
ClusterNames == {"alpha", "beta"}
\* Values an external actor gives the cluster-name label.
LabelValues == {"", "alpha", "beta"}

\* fmt.Sprintf(userNameSignature, ns, name)
userNameSignature(ns, name) ==
    "system:serviceaccount:" \o ns \o ":" \o name \o "-bootstrap-sa"

\* Requested identities external actors put in a CSR.
UserNames == {userNameSignature("alpha", "alpha"),
              userNameSignature("beta", "alpha")}

CertificateApproved == "Approved"
CertificateDenied == "Denied"

\* The condition Reconcile appends (timestamp and message left out).
ApprovedCondition ==
    [Type |-> CertificateApproved, Reason |-> "AutoApprovedByCSRController"]

\* Conditions other actors (an administrator, another approver) add.
\* "Failed" stands for any type that is neither Approved nor Denied.
ExternalConditions ==
    {[Type |-> t, Reason |-> "External"] :
        t \in {CertificateApproved, CertificateDenied, "Failed"}}

NoLabels == [k \in {} |-> ""]
LabelSets == {NoLabels} \cup {[k \in {clusterLabel} |-> v] : v \in LabelValues}

\* The zero value of the instance Reconcile fetches into.
EmptyCSR ==
    [Labels |-> NoLabels, Username |-> "", Conditions |-> <<>>,
     DeletionTimestamp |-> FALSE, ResourceVersion |-> 0]

NoRequest == "none"

VARIABLES
    csrs,        \* the store's CSRs: a function from the existing names
    clusters,    \* the store's ManagedClusters (the registry): a set of names
    kubeClient,  \* ReconcileCSR.kubeClient: "ok", or "nil" when construction failed
    queue,       \* the controller's work queue: a set of CSR names
    pc,          \* position of the worker: idle, getCSR, getCluster, update, crashed
    request,     \* the request the worker is processing
    instance,    \* Reconcile's local instance
    inv,         \* record of the current (or last) Reconcile invocation
    revision,    \* the store's revision: the version the last write got
    extOps       \* external changes made so far

vars == <<csrs, clusters, kubeClient, queue, pc, request, instance, inv,
          revision, extOps>>


\* ------------------------------------------------- the eligibility filter
getClusterName(csr) ==
    IF clusterLabel \in DOMAIN csr.Labels THEN csr.Labels[clusterLabel] ELSE ""

\* The type of the first Approved or Denied condition, in list order.
RECURSIVE firstApprovalType(_)
firstApprovalType(conds) ==
    IF conds = <<>> THEN ""
    ELSE IF Head(conds).Type = CertificateApproved
            \/ Head(conds).Type = CertificateDenied
         THEN Head(conds).Type
         ELSE firstApprovalType(Tail(conds))

getApprovalType(csr) == firstApprovalType(csr.Conditions)

validUsername(csr, clusterName) ==
    csr.Username = userNameSignature(clusterName, clusterName)

\* Mutant: the requested identity is not compared.
csrPredicateNoUsername(csr) ==
    getClusterName(csr) # "" /\ getApprovalType(csr) = ""

csrPredicate(csr) ==
    LET clusterName == getClusterName(csr) IN
        /\ clusterName # ""
        /\ getApprovalType(csr) = ""
        /\ validUsername(csr, clusterName)

\* csrPredicateFuncs: the filter applied to watch events.
UpdateFunc(objectNew) == csrPredicate(objectNew)
CreateFunc(object) == csrPredicate(object)
\* predicate.Funcs sets no DeleteFunc, so every delete event passes.
DeleteFunc(object) == TRUE

\* handler.EnqueueRequestForObject behind the predicates: the queue after
\* an event about the CSR named n.
Enqueue(q, n, admitted) == IF admitted THEN q \cup {n} ELSE q

\* ------------------------------------------------------- the store calls
\* Errors a call can end with; "nil" is success.  Any call can fail with a
\* transient error (network, timeout, server error) and then has no effect.
TransientErrors == {"Transient"}

\* r.client.Get of the CSR named n
ClientGetCSR(n) ==
    {IF n \in DOMAIN csrs THEN "nil" ELSE "NotFound"} \cup TransientErrors

\* r.client.Get of the ManagedCluster named name
ClientGetCluster(name) ==
    {IF name \in clusters THEN "nil" ELSE "NotFound"} \cup TransientErrors

\* Mutant: the update is not conditional on the version.
UpdateApprovalUnconditional(n, obj) ==
    {IF n \notin DOMAIN csrs THEN "NotFound" ELSE "nil"} \cup TransientErrors

\* signingRequest.UpdateApproval of obj under the name n: an update against
\* the version obj was read at.
UpdateApproval(n, obj) ==
    {IF n \notin DOMAIN csrs THEN "NotFound"
     ELSE IF csrs[n].ResourceVersion # obj.ResourceVersion THEN "Conflict"
     ELSE "nil"} \cup TransientErrors

\* --------------------------------------------------- Reconcile's decisions
\* Mutant: a missing CSR is reported as an error.
ReturnAfterCSRGetNoNotFound(err) == [Requeue |-> FALSE, err |-> err]

\* What Reconcile returns after the CSR fetch ended with err # "nil".
ReturnAfterCSRGet(err) ==
    IF err = "NotFound" THEN [Requeue |-> FALSE, err |-> "nil"]
    ELSE [Requeue |-> FALSE, err |-> err]

\* Mutant: the registry fetch is handled like the CSR fetch.
ReturnAfterClusterGetLikeCSR(err) ==
    IF err = "NotFound" THEN [Requeue |-> FALSE, err |-> "nil"]
    ELSE [Requeue |-> FALSE, err |-> err]

\* What Reconcile returns after the registry fetch ended with err # "nil".
ReturnAfterClusterGet(err) == [Requeue |-> FALSE, err |-> "nil"]

\* Mutant: only a transient error stops the approval.
ApprovesUnlessTransient(err) == err # "Transient"

\* Whether Reconcile goes on to approve after the registry fetch.
ApprovesAfterClusterGet(err) == err = "nil"

\* Mutant: the submission's error is dropped.
ReturnAfterUpdateApprovalDropped(err) == [Requeue |-> FALSE, err |-> "nil"]

\* What Reconcile returns after the approval submission.
ReturnAfterUpdateApproval(err) ==
    IF err # "nil" THEN [Requeue |-> FALSE, err |-> err]
    ELSE [Requeue |-> FALSE, err |-> "nil"]

\* Mutant: the request is denied instead of approved.
AppendDenied(conds) ==
    Append(conds, [Type |-> CertificateDenied,
                   Reason |-> "AutoApprovedByCSRController"])

\* Mutant: the condition list is replaced, not appended to.
ReplaceByApproved(conds) == <<ApprovedCondition>>

\* instance.Status.Conditions after the append.
AppendApproved(conds) == Append(conds, ApprovedCondition)

\* The controller requeues the request if the error is non-nil or
\* Result.Requeue is true; otherwise it removes the work from the queue.
Requeues(ret) == ret.err # "nil" \/ ret.Requeue

NewInvocation(n) ==
    [name |-> n, csrGet |-> "none", clusterGet |-> "none", update |-> "none",
     fetched |-> EmptyCSR, writes |-> 0, written |-> <<>>,
     returned |-> FALSE,
     ret |-> [Requeue |-> FALSE, err |-> "nil"], panicked |-> FALSE]

Return(i, ret) == [i EXCEPT !.returned = TRUE, !.ret = ret]


\* ------------------------------------------------------------------ Init
\* newReconciler: kubeClient is nil when NewDefaultKubeClient failed.
Init ==
    /\ csrs = [n \in {} |-> EmptyCSR]
    /\ clusters \in SUBSET ClusterNames
    /\ kubeClient \in {"ok", "nil"}
    /\ queue = {}
    /\ pc = "idle"
    /\ request = NoRequest
    /\ instance = EmptyCSR
    /\ inv = NewInvocation(NoRequest)
    /\ revision = 0
    /\ extOps = 0

\* ------------------------------------------------------- external actors
\* The store after a write of obj under the name n, with the next version.
Put(n, obj) ==
    [m \in DOMAIN csrs \cup {n} |->
        IF m = n THEN [obj EXCEPT !.ResourceVersion = revision + 1]
        ELSE csrs[m]]

ctrlVars == <<kubeClient, pc, request, instance, inv>>

\* Someone creates the CSR named n; the watch delivers a create event.
CreateCSR(n, labels, user) ==
    /\ extOps < MaxExtOps
    /\ n \notin DOMAIN csrs
    /\ LET obj == [EmptyCSR EXCEPT !.Labels = labels, !.Username = user] IN
        /\ csrs' = Put(n, obj)
        /\ queue' = Enqueue(queue, n, CreateFunc(csrs'[n]))
    /\ revision' = revision + 1
    /\ extOps' = extOps + 1
    /\ UNCHANGED <<clusters, ctrlVars>>

\* Someone changes the labels of the CSR named n; update event.
RelabelCSR(n, labels) ==
    /\ extOps < MaxExtOps
    /\ n \in DOMAIN csrs
    /\ labels # csrs[n].Labels
    /\ csrs' = Put(n, [csrs[n] EXCEPT !.Labels = labels])
    /\ queue' = Enqueue(queue, n, UpdateFunc(csrs'[n]))
    /\ revision' = revision + 1
    /\ extOps' = extOps + 1
    /\ UNCHANGED <<clusters, ctrlVars>>

\* Another approver adds a condition to the CSR named n; update event.
ResolveCSR(n, cond) ==
    /\ extOps < MaxExtOps
    /\ n \in DOMAIN csrs
    /\ csrs' = Put(n, [csrs[n] EXCEPT !.Conditions = Append(@, cond)])
    /\ queue' = Enqueue(queue, n, UpdateFunc(csrs'[n]))
    /\ revision' = revision + 1
    /\ extOps' = extOps + 1
    /\ UNCHANGED <<clusters, ctrlVars>>

\* The CSR named n is marked for deletion (it has finalizers); update event.
MarkCSRDeleted(n) ==
    /\ extOps < MaxExtOps
    /\ n \in DOMAIN csrs
    /\ ~csrs[n].DeletionTimestamp
    /\ csrs' = Put(n, [csrs[n] EXCEPT !.DeletionTimestamp = TRUE])
    /\ queue' = Enqueue(queue, n, UpdateFunc(csrs'[n]))
    /\ revision' = revision + 1
    /\ extOps' = extOps + 1
    /\ UNCHANGED <<clusters, ctrlVars>>

\* The CSR named n is removed from the store; delete event.
RemoveCSR(n) ==
    /\ extOps < MaxExtOps
    /\ n \in DOMAIN csrs
    /\ csrs' = [m \in DOMAIN csrs \ {n} |-> csrs[m]]
    /\ queue' = Enqueue(queue, n, DeleteFunc(csrs[n]))
    /\ revision' = revision + 1
    /\ extOps' = extOps + 1
    /\ UNCHANGED <<clusters, ctrlVars>>

\* ManagedClusters are not watched by this controller: no event.
RegisterCluster(c) ==
    /\ extOps < MaxExtOps
    /\ c \notin clusters
    /\ clusters' = clusters \cup {c}
    /\ extOps' = extOps + 1
    /\ UNCHANGED <<csrs, queue, revision, ctrlVars>>

UnregisterCluster(c) ==
    /\ extOps < MaxExtOps
    /\ c \in clusters
    /\ clusters' = clusters \ {c}
    /\ extOps' = extOps + 1
    /\ UNCHANGED <<csrs, queue, revision, ctrlVars>>


\* --------------------------------------------------------------- Reconcile
envVars == <<clusters, kubeClient, extOps>>

\* Mutant: the deletion timestamp is not looked at.
NeverMarkedForDeletion(obj) == FALSE

MarkedForDeletion(obj) == obj.DeletionTimestamp

\* The worker takes the request n off the queue and calls Reconcile.
Dequeue(n) ==
    /\ pc = "idle"
    /\ n \in queue
    /\ queue' = queue \ {n}
    /\ pc' = "getCSR"
    /\ request' = n
    /\ inv' = NewInvocation(n)
    /\ UNCHANGED <<csrs, revision, instance, envVars>>

\* Reconcile fetches the CSR; it returns at once when the fetch fails or
\* the CSR is marked for deletion.
ReconcileGetCSR(err) ==
    /\ pc = "getCSR"
    /\ err \in ClientGetCSR(request)
    /\ LET i0 == [inv EXCEPT !.csrGet = err] IN
        IF err # "nil"
        THEN LET ret == ReturnAfterCSRGet(err) IN
             /\ inv' = Return(i0, ret)
             /\ queue' = IF Requeues(ret) THEN queue \cup {request} ELSE queue
             /\ pc' = "idle"
             /\ request' = NoRequest
             /\ UNCHANGED instance
        ELSE IF MarkedForDeletion(csrs[request])
        THEN /\ inv' = Return([i0 EXCEPT !.fetched = csrs[request]],
                              [Requeue |-> FALSE, err |-> "nil"])
             /\ pc' = "idle"
             /\ request' = NoRequest
             /\ UNCHANGED <<queue, instance>>
        ELSE /\ inv' = [i0 EXCEPT !.fetched = csrs[request]]
             /\ pc' = "getCluster"
             /\ instance' = csrs[request]
             /\ UNCHANGED <<queue, request>>
    /\ UNCHANGED <<csrs, revision, envVars>>

\* Reconcile fetches the ManagedCluster named by the label and, when it
\* finds it, appends the Approved condition to its instance.
ReconcileGetCluster(err) ==
    /\ pc = "getCluster"
    /\ err \in ClientGetCluster(getClusterName(instance))
    /\ IF ApprovesAfterClusterGet(err)
       THEN /\ inv' = [inv EXCEPT !.clusterGet = err]
            /\ instance' =
                 [instance EXCEPT !.Conditions = AppendApproved(@)]
            /\ pc' = "update"
            /\ UNCHANGED <<queue, request>>
       ELSE LET ret == ReturnAfterClusterGet(err) IN
            /\ inv' = Return([inv EXCEPT !.clusterGet = err], ret)
            /\ queue' = IF Requeues(ret) THEN queue \cup {request} ELSE queue
            /\ pc' = "idle"
            /\ request' = NoRequest
            /\ instance' = EmptyCSR
    /\ UNCHANGED <<csrs, revision, envVars>>

\* Reconcile submits the approval and returns.  An accepted update writes
\* the conditions and the watch delivers an update event.
ReconcileUpdateApproval(err) ==
    /\ pc = "update"
    /\ kubeClient # "nil"
    /\ err \in UpdateApproval(request, instance)
    /\ LET ret == ReturnAfterUpdateApproval(err)
           accepted == err = "nil"
       IN
        /\ inv' = Return([inv EXCEPT !.update = err, !.writes = @ + 1,
                                     !.written = IF accepted
                                                 THEN instance.Conditions
                                                 ELSE <<>>], ret)
        /\ csrs' = IF accepted
                   THEN Put(request, [csrs[request] EXCEPT
                                        !.Conditions = instance.Conditions])
                   ELSE csrs
        /\ revision' = IF accepted THEN revision + 1 ELSE revision
        /\ queue' =
             LET q == IF accepted
                      THEN Enqueue(queue, request, UpdateFunc(csrs'[request]))
                      ELSE queue
             IN IF Requeues(ret) THEN q \cup {request} ELSE q
    /\ pc' = "idle"
    /\ request' = NoRequest
    /\ instance' = EmptyCSR
    /\ UNCHANGED envVars

\* r.kubeClient is nil: the call through it panics and the process dies.
ReconcilePanic ==
    /\ pc = "update"
    /\ kubeClient = "nil"
    /\ inv' = [inv EXCEPT !.panicked = TRUE]
    /\ pc' = "crashed"
    /\ UNCHANGED <<csrs, queue, request, instance, revision, envVars>>

\* ------------------------------------------------------------------ Next
Create == \E n \in CSRNames, l \in LabelSets, u \in UserNames : CreateCSR(n, l, u)
Relabel == \E n \in CSRNames, l \in LabelSets : RelabelCSR(n, l)
Resolve == \E n \in CSRNames, c \in ExternalConditions : ResolveCSR(n, c)
MarkDeleted == \E n \in CSRNames : MarkCSRDeleted(n)
Remove == \E n \in CSRNames : RemoveCSR(n)
Register == \E c \in ClusterNames : RegisterCluster(c)
Unregister == \E c \in ClusterNames : UnregisterCluster(c)
Take == \E n \in CSRNames : Dequeue(n)
GetCSR == \E e \in {"nil", "NotFound", "Transient"} : ReconcileGetCSR(e)
GetCluster == \E e \in {"nil", "NotFound", "Transient"} : ReconcileGetCluster(e)
Update == \E e \in {"nil", "NotFound", "Conflict", "Transient"} :
              ReconcileUpdateApproval(e)

Environment ==
    \/ Create \/ Relabel \/ Resolve \/ MarkDeleted \/ Remove
    \/ Register \/ Unregister

Reconcile == Take \/ GetCSR \/ GetCluster \/ Update \/ ReconcilePanic

Next == Environment \/ Reconcile

Spec == Init /\ [][Next]_vars


\* ---------------------------------------------------------------- claims
Success == [Requeue |-> FALSE, err |-> "nil"]

\* The invocation fetched the CSR.
Fetched == inv.csrGet = "nil"

\* The number of conditions in conds that this controller added.
CountAuto(conds) ==
    Cardinality({i \in 1..Len(conds) : conds[i] = ApprovedCondition})

LabelMissing(csr) ==
    clusterLabel \notin DOMAIN csr.Labels \/ csr.Labels[clusterLabel] = ""

\* C1: once the stored CSR carries an Approved or Denied condition, no
\* step adds another condition of this controller to it.
C1_NoConditionOnceResolved ==
    [][\A n \in CSRNames :
          (/\ n \in DOMAIN csrs
           /\ n \in DOMAIN csrs'
           /\ getApprovalType(csrs[n]) # "")
          => CountAuto(csrs'[n].Conditions) = CountAuto(csrs[n].Conditions)]_vars

\* C2: an invocation whose fetched CSR already carries an Approved or
\* Denied condition submits nothing.
C2_ResolvedIsNoOp ==
    (inv.returned /\ Fetched /\ getApprovalType(inv.fetched) # "")
    => inv.writes = 0 /\ inv.update = "none"

\* C3: an invocation whose fetched CSR has a non-empty cluster label and a
\* Username other than the bootstrap identity of that cluster is not
\* eligible and submits nothing.
C3_WrongUsernameNoWrite ==
    (/\ inv.returned
     /\ Fetched
     /\ getClusterName(inv.fetched) # ""
     /\ ~validUsername(inv.fetched, getClusterName(inv.fetched)))
    => /\ ~csrPredicate(inv.fetched)
       /\ inv.writes = 0

\* C4: an invocation that fetched an eligible CSR and found its registry
\* entry submits exactly one update; when the store accepts it, the written
\* list is the fetched list plus one Approved condition and the invocation
\* returns success.
C4_EligibleApprovedOnce ==
    (/\ inv.returned
     /\ Fetched
     /\ ~MarkedForDeletion(inv.fetched)
     /\ csrPredicate(inv.fetched)
     /\ inv.clusterGet = "nil")
    => /\ inv.writes = 1
       /\ inv.update # "none"
       /\ inv.update = "nil" =>
            /\ inv.written = Append(inv.fetched.Conditions, ApprovedCondition)
            /\ Len(inv.written) = Len(inv.fetched.Conditions) + 1
            /\ inv.written[Len(inv.written)].Type = CertificateApproved
            /\ inv.ret = Success

C4_Witness ==
    /\ inv.returned
    /\ Fetched
    /\ csrPredicate(inv.fetched)
    /\ inv.fetched.Conditions # <<>>
    /\ inv.clusterGet = "nil"
    /\ inv.update = "nil"
    /\ inv.name \in DOMAIN csrs
    /\ csrs[inv.name].Conditions = inv.written

\* C5: an invocation whose fetched CSR has no cluster-name label, or an
\* empty one, is not eligible, never reaches the submission and submits
\* nothing, whatever the registry holds.
C5_NoLabelNoWrite ==
    (Fetched /\ LabelMissing(inv.fetched))
    => /\ ~csrPredicate(inv.fetched)
       /\ inv.writes = 0
       /\ inv.update = "none"
       /\ pc \notin {"update", "crashed"}

C5_Witness ==
    /\ inv.returned
    /\ Fetched
    /\ LabelMissing(inv.fetched)
    /\ ~MarkedForDeletion(inv.fetched)
    /\ inv.clusterGet = "NotFound"
    /\ clusters # {}

\* C6: an invocation whose registry fetch failed (NotFound or any other
\* error) submits nothing and returns success without requeue.
C6_RegistryErrorIsSuccess ==
    (inv.returned /\ inv.clusterGet \notin {"none", "nil"})
    => /\ inv.writes = 0
       /\ inv.update = "none"
       /\ inv.ret = Success

C6_Witness ==
    /\ inv.returned
    /\ inv.clusterGet = "Transient"
    /\ csrPredicate(inv.fetched)
    /\ getClusterName(inv.fetched) \in clusters
    /\ inv.name \notin queue

\* C7: an invocation whose CSR fetch returned NotFound returns success,
\* submits nothing and does not look up the registry.
C7_MissingCSRIsSuccess ==
    (inv.returned /\ inv.csrGet = "NotFound")
    => /\ inv.ret = Success
       /\ inv.writes = 0
       /\ inv.update = "none"
       /\ inv.clusterGet = "none"

C7_Witness ==
    /\ inv.returned
    /\ inv.csrGet = "NotFound"
    /\ inv.name \notin queue

\* C8: an invocation that submitted returns the submission's error, and
\* the request is queued again, when the store rejected the update; it
\* returns success without requeue when the store accepted it.
C8_SubmissionDecidesResult ==
    (inv.returned /\ inv.update # "none")
    => /\ inv.update # "nil" =>
            /\ inv.ret.err = inv.update
            /\ inv.ret.err # "nil"
            /\ pc = "idle" => inv.name \in queue
       /\ inv.update = "nil" => inv.ret = Success

C8_Witness ==
    /\ inv.returned
    /\ inv.update = "Conflict"
    /\ inv.ret.err = "Conflict"
    /\ inv.name \in queue

\* C9: an invocation in which a fetch or the submission failed with a
\* transient error returns a non-nil error.
C9_TransientErrorsSurfaced ==
    (inv.returned /\ "Transient" \in {inv.csrGet, inv.clusterGet, inv.update})
    => inv.ret.err # "nil"

\* C10: when the controller is at rest (nothing queued, nothing in flight)
\* no CSR carries more than one condition added by this controller.
C10_OneApprovalAtRest ==
    (pc = "idle" /\ queue = {})
    => \A n \in DOMAIN csrs : CountAuto(csrs[n].Conditions) <= 1


\* C11: when the last invocation found no registry entry for an eligible
\* CSR and returned, and the entry is then created, the CSR's request is
\* queued again.
C11_RegistrationRetriggers ==
    [][\A n \in CSRNames :
          (/\ inv.returned
           /\ inv.name = n
           /\ inv.clusterGet = "NotFound"
           /\ pc = "idle"
           /\ n \in DOMAIN csrs
           /\ csrs[n] = inv.fetched
           /\ csrPredicate(csrs[n])
           /\ getClusterName(csrs[n]) \notin clusters
           /\ getClusterName(csrs[n]) \in clusters')
          => n \in queue']_vars

\* C12: Reconcile never panics.
C12_NeverPanics == pc # "crashed" /\ ~inv.panicked


\* Eligibility as the specification words it: the label is present and not
\* empty, no condition is Approved or Denied, and Username is the bootstrap
\* service account of the labelled cluster.
Eligible(csr) ==
    /\ clusterLabel \in DOMAIN csr.Labels
    /\ csr.Labels[clusterLabel] # ""
    /\ \A i \in 1..Len(csr.Conditions) :
          csr.Conditions[i].Type \notin {"Approved", "Denied"}
    /\ csr.Username = "system:serviceaccount:" \o csr.Labels[clusterLabel]
                       \o ":" \o csr.Labels[clusterLabel] \o "-bootstrap-sa"

\* C13: a step that creates or updates a CSR adds its request to the queue
\* if and only if the new snapshot is eligible.
C13_AdmittedIffEligible ==
    [][\A n \in CSRNames :
          (n \in DOMAIN csrs' /\ (n \notin DOMAIN csrs \/ csrs'[n] # csrs[n]))
          => queue' = IF Eligible(csrs'[n]) THEN queue \cup {n} ELSE queue]_vars

C13_Witness ==
    \E n, m \in DOMAIN csrs :
        /\ n \in queue
        /\ Eligible(csrs[n])
        /\ csrs[n].Conditions # <<>>
        /\ m \notin queue
        /\ ~Eligible(csrs[m])
        /\ getClusterName(csrs[m]) # ""
        /\ inv.name = NoRequest

\* C14: a step of Reconcile (a step that is not an external change) leaves
\* the registry and the set of CSRs as they are, changes no CSR but the
\* requested one, and changes that one only by one condition added at the
\* end of its list.
C14_ReconcileFrame ==
    [][extOps' = extOps =>
         /\ clusters' = clusters
         /\ DOMAIN csrs' = DOMAIN csrs
         /\ \A m \in DOMAIN csrs :
              /\ m # request => csrs'[m] = csrs[m]
              /\ csrs'[m] # csrs[m] =>
                   /\ csrs'[m].Labels = csrs[m].Labels
                   /\ csrs'[m].Username = csrs[m].Username
                   /\ csrs'[m].DeletionTimestamp = csrs[m].DeletionTimestamp
                   /\ Len(csrs'[m].Conditions) = Len(csrs[m].Conditions) + 1
                   /\ SubSeq(csrs'[m].Conditions, 1, Len(csrs[m].Conditions))
                        = csrs[m].Conditions]_vars

C14_Witness ==
    /\ inv.returned
    /\ inv.update = "nil"
    /\ clusters # {}
    /\ \E m \in DOMAIN csrs : m # inv.name
    /\ inv.name \in DOMAIN csrs
    /\ csrs[inv.name].Conditions = inv.written
    /\ Len(inv.written) >= 2

\* C15: the list Reconcile submits, and the list an accepted submission
\* writes, is the fetched list in its order followed by one condition of
\* type Approved with the reason AutoApprovedByCSRController.
SubmittedIsFetchedPlusApproved(conds) ==
    LET k == Len(inv.fetched.Conditions) IN
        /\ Len(conds) = k + 1
        /\ SubSeq(conds, 1, k) = inv.fetched.Conditions
        /\ conds[k + 1].Type = "Approved"
        /\ conds[k + 1].Reason = "AutoApprovedByCSRController"

C15_SubmittedList ==
    /\ pc \in {"update", "crashed"}
         => SubmittedIsFetchedPlusApproved(instance.Conditions)
    /\ inv.update = "nil" => SubmittedIsFetchedPlusApproved(inv.written)

C15_Witness ==
    /\ inv.update = "nil"
    /\ Len(inv.fetched.Conditions) >= 1
    /\ inv.fetched.Conditions[1].Type = "Denied"
    /\ Len(inv.written) = 2

\* C16: an invocation whose fetched CSR is marked for deletion returns
\* success at once: no registry lookup and no submission.
C16_DeletingIsSuccess ==
    (Fetched /\ inv.fetched.DeletionTimestamp)
    => /\ inv.returned
       /\ inv.ret = Success
       /\ inv.writes = 0
       /\ inv.update = "none"
       /\ inv.clusterGet = "none"

C16_Witness ==
    /\ Fetched
    /\ inv.fetched.DeletionTimestamp
    /\ inv.returned
    /\ Eligible(inv.fetched)
    /\ getClusterName(inv.fetched) \in clusters


\* C18: an invocation submits at most once, only after its CSR fetch and
\* then its fetch of the registry entry named by the CSR's label both
\* succeeded; an invocation in which a fetch failed submits nothing.
C18_OneWriteAfterBothFetches ==
    /\ inv.writes <= 1
    /\ (inv.writes = 1) = (inv.update # "none")
    /\ (inv.update # "none" \/ pc \in {"update", "crashed"})
         => /\ inv.csrGet = "nil"
            /\ inv.clusterGet = "nil"
            /\ inv.fetched.Labels[clusterLabel] \in ClusterNames
    /\ inv.clusterGet # "none" => inv.csrGet = "nil"
    /\ (inv.csrGet \in {"NotFound", "Transient"}
        \/ inv.clusterGet \in {"NotFound", "Transient"})
         => inv.returned /\ inv.writes = 0 /\ inv.update = "none"

C18_Witness ==
    /\ inv.returned
    /\ inv.writes = 1
    /\ inv.update = "Transient"
    /\ inv.csrGet = "nil"
    /\ inv.clusterGet = "nil"

\* C19: a rejected submission leaves every stored CSR as it was and the
\* local instance is dropped; an accepted one keeps every condition the
\* stored CSR had, in place.
C19_RejectedLeavesStore ==
    [][(pc = "update" /\ pc' = "idle") =>
         /\ inv'.update # "nil" => csrs' = csrs /\ instance' = EmptyCSR
         /\ inv'.update = "nil" =>
              \A i \in 1..Len(csrs[request].Conditions) :
                  /\ i <= Len(csrs'[request].Conditions)
                  /\ csrs'[request].Conditions[i] = csrs[request].Conditions[i]]_vars

\* A submission was rejected for a conflict after another actor had added
\* a condition, which the store still holds.
C19_Witness ==
    /\ inv.returned
    /\ inv.update = "Conflict"
    /\ inv.name \in DOMAIN csrs
    /\ Len(csrs[inv.name].Conditions) = Len(inv.fetched.Conditions) + 1
    /\ csrs[inv.name].Conditions[Len(csrs[inv.name].Conditions)].Reason
         = "External"
    /\ instance = EmptyCSR
    /\ inv.name \in queue


\* ---------------------------------------------------------------- liveness
\* The controller's worker keeps running Reconcile, every queued request is
\* eventually taken, and a store call whose true answer is possible again
\* and again eventually gives it: the transient failures of the CSR fetch,
\* of the registry fetch and of the submission are finitely many.
FairSpec ==
    /\ Spec
    /\ WF_vars(Reconcile)
    /\ \A n \in CSRNames : SF_vars(Dequeue(n))
    /\ \A e \in {"nil", "NotFound"} :
          SF_vars(ReconcileGetCSR(e)) /\ SF_vars(ReconcileGetCluster(e))
    /\ SF_vars(ReconcileUpdateApproval("nil"))

\* The CSR named n awaits approval: eligible, not marked for deletion, and
\* its registry entry exists.
Pending(n) ==
    /\ n \in DOMAIN csrs
    /\ Eligible(csrs[n])
    /\ ~csrs[n].DeletionTimestamp
    /\ csrs[n].Labels[clusterLabel] \in clusters

\* The request for n is queued or being reconciled.
InHand(n) ==
    \/ n \in queue
    \/ request = n /\ pc \in {"getCSR", "getCluster", "update"}

ApprovedByController(n) ==
    n \in DOMAIN csrs /\ CountAuto(csrs[n].Conditions) >= 1

\* C17: a pending CSR whose request is in the controller's hands is
\* eventually approved by the controller, unless it stops being pending
\* because someone else deleted, resolved or relabelled it or removed its
\* registry entry.
C17_EventuallyApproved ==
    \A n \in CSRNames :
        (Pending(n) /\ InHand(n)) ~> (ApprovedByController(n) \/ ~Pending(n))

====
